---------------------------- MODULE Spec2Model ----------------------------
(***************************************************************************)
(* A model of the information retrieval system: the retrieval models of    *)
(* models.py (linear, inverted list, signature, vector space), the search  *)
(* routines and the menu of ir_system.py, and the cleanup / stemming steps *)
(* that fill a document's term lists.                                      *)
(*                                                                         *)
(* Strings are sequences of one-character strings, so that splitting,      *)
(* stripping, case folding and suffix tests are computed and not assumed.  *)
(* A set of document ids is a set of naturals; a Python list is a          *)
(* sequence; a dict is a function whose DOMAIN is the set of its keys.     *)
(***************************************************************************)
EXTENDS Integers, Sequences, FiniteSets, TLC

VARIABLES
    \* ---- the query evaluator of one search() call (SpecEval) ----
    ev,          \* the running search(): tokens, position, both stacks, pc
    evCtx,       \* the model instance search() runs on (index / documents / signatures)
    evQuery,     \* the query string given to search()
    \* ---- the signature functions on one document and one query (SpecSig) ----
    sigHash,     \* the hash function: term -> seed -> bit position
    sigDoc,      \* the term list of the document
    sigOut,      \* the last match(): the query, both signature lists, the result
    \* ---- document_to_representation of the four models (SpecRepr) ----
    rep,         \* the document, the two flags and the last representation built
    \* ---- the system of ir_system.py (Spec) ----
    rawFile,     \* the fables of raw_data/aesopa10.txt, each as its term list
    self_stop_word_list,  \* self.stop_word_list
    collection,  \* self.collection: a list of Documents
    model,       \* self.model: kind and the fields of the instance
    inverted_list, \* self.inverted_list, kind "none" while the attribute is not set
    status,      \* "running", or "crashed" by an exception, or "hung" in a loop
    last,        \* the last menu step: routine, query, flags, scores, results
    \* ---- one call of a function of the library (SpecVec and the like) ----
    fcall        \* the arguments of the call and, once made, what it returned

evalVars == <<ev, evCtx, evQuery>>
sigVars == <<sigHash, sigDoc, sigOut>>
reprVars == <<rep>>
sysVars == <<rawFile, self_stop_word_list, collection, model, inverted_list, status, last>>
callVars == <<fcall>>
vars == <<ev, evCtx, evQuery, sigHash, sigDoc, sigOut, rep,
          rawFile, self_stop_word_list, collection, model, inverted_list, status,
          last, fcall>>

\* the variables of a part of the model that a specification does not use
EvalIdle == ev = <<>> /\ evCtx = <<>> /\ evQuery = <<>>
SigIdle == sigHash = <<>> /\ sigDoc = <<>> /\ sigOut = <<>>
ReprIdle == rep = <<>>
CallIdle == fcall = <<>>
SysIdle ==
    /\ rawFile = <<>> /\ self_stop_word_list = <<>>
    /\ collection = <<>> /\ model = <<>>
    /\ inverted_list = <<>> /\ status = <<>> /\ last = <<>>

------------------------------------------------------------------------------
(* Bounds of the model *)

\* longest query string given to a stepwise search(), in characters
MaxQueryLen == 4

\* longest term list of the document of SpecSig: a full section and one term
MaxSigDocLen == 6

\* most terms of a query of SpecSig
MaxSigQueryTerms == 2

------------------------------------------------------------------------------
(* Strings *)

\* str.lower() on the characters of the model's alphabet
LowerChar(c) ==
    IF c = "A" THEN "a" ELSE IF c = "B" THEN "b" ELSE IF c = "C" THEN "c" ELSE c

Lower(s) == [i \in DOMAIN s |-> LowerChar(s[i])]

\* str.strip() / lstrip / rstrip: the only whitespace of the alphabet is " "
RECURSIVE LStrip(_)
LStrip(s) == IF s # <<>> /\ Head(s) = " " THEN LStrip(Tail(s)) ELSE s

RECURSIVE RStrip(_)
RStrip(s) ==
    IF s # <<>> /\ s[Len(s)] = " " THEN RStrip(SubSeq(s, 1, Len(s) - 1)) ELSE s

Strip(s) == LStrip(RStrip(s))

\* re.split(r'(<ops>)', s): the pieces between operator characters, with the
\* operator characters themselves (the capturing group) kept as pieces
RECURSIVE ReSplit(_, _, _, _)
ReSplit(s, ops, cur, acc) ==
    IF s = <<>> THEN Append(acc, cur)
    ELSE IF Head(s) \in ops
         THEN ReSplit(Tail(s), ops, <<>>, acc \o <<cur, <<Head(s)>>>>)
         ELSE ReSplit(Tail(s), ops, Append(cur, Head(s)), acc)

\* [token.strip() for token in tokens if token.strip()]
StripTokens(pieces) ==
    LET stripped == [i \in DOMAIN pieces |-> Strip(pieces[i])]
    IN  SelectSeq(stripped, LAMBDA t : t # <<>>)

\* str.split() without arguments: maximal runs of non-whitespace
RECURSIVE SplitWs(_, _, _)
SplitWs(s, cur, acc) ==
    IF s = <<>> THEN (IF cur = <<>> THEN acc ELSE Append(acc, cur))
    ELSE IF Head(s) = " "
         THEN SplitWs(Tail(s), <<>>, IF cur = <<>> THEN acc ELSE Append(acc, cur))
         ELSE SplitWs(Tail(s), Append(cur, Head(s)), acc)

Split(s) == SplitWs(s, <<>>, <<>>)

\* the set of the elements of a sequence
Range(s) == {s[i] : i \in DOMAIN s}


------------------------------------------------------------------------------
(* Documents and collections *)

\* A Document: the fields the retrieval layer reads.  document_id is the id
\* the extraction gave it; the three term lists are lists of strings.
Doc(id, terms, filtered, stemmed) ==
    [document_id |-> id, terms |-> terms,
     filtered_terms |-> filtered, stemmed_terms |-> stemmed]

\* dict insertion d[k] = v for a dict modelled as a function
Put(d, k, v) == [x \in (DOMAIN d) \cup {k} |-> IF x = k THEN v ELSE d[x]]

EmptyDict == [x \in {} |-> {}]

------------------------------------------------------------------------------
(* InvertedListBooleanModel: the index *)

\* InvertedListBooleanModel.__init__
InvertedListInit == [inverted_index |-> EmptyDict, all_docs |-> {}]

\* the inner loop of build_inverted_list: for term in document.terms
RECURSIVE IndexTerms(_, _, _)
IndexTerms(index, terms, doc_id) ==
    IF terms = <<>> THEN index
    ELSE LET term == Lower(Head(terms))
             have == IF term \in DOMAIN index THEN index[term] ELSE {}
         IN  IndexTerms(Put(index, term, have \cup {doc_id}), Tail(terms), doc_id)

\* build_inverted_list(documents): for doc_id, document in enumerate(documents);
\* i is the position reached (enumerate counts from 0, sequences from 1)
RECURSIVE BuildFrom(_, _, _)
BuildFrom(m, documents, i) ==
    IF i > Len(documents) THEN m
    ELSE BuildFrom([inverted_index |-> IndexTerms(m.inverted_index, documents[i].terms, i - 1),
                    all_docs |-> m.all_docs \cup {i - 1}],
                   documents, i + 1)

build_inverted_list(m, documents) == BuildFrom(m, documents, 1)

------------------------------------------------------------------------------
(* LinearBooleanModel *)

\* LinearBooleanModel.document_to_representation: {term: 1 for term in ...},
\* a dict whose values are all 1, modelled as the set of its keys
LinearDocumentToRepresentation(document, stopword_filtering, stemming) ==
    LET terms0 == IF stopword_filtering THEN document.filtered_terms
                                        ELSE document.terms
        terms  == IF stemming THEN document.stemmed_terms ELSE terms0
    IN  {Lower(terms[i]) : i \in DOMAIN terms}

\* the operator characters the boolean models split a query on
BoolOps == {"(", ")", "&", "|", "-"}

\* LinearBooleanModel.query_to_representation: a list of tokens
LinearQueryToRepresentation(query) ==
    StripTokens(ReSplit(Lower(query), BoolOps, <<>>, <<>>))

\* LinearBooleanModel.match: a list representation becomes the dict of its
\* elements; the score is the number of common keys
LinearMatch(document_representation, query_representation) ==
    Cardinality(document_representation \cap Range(query_representation))

\* LinearBooleanModel.add_document
LinearAddDocument(documents, document, stopword_filtering, stemming) ==
    Append(documents,
           LinearDocumentToRepresentation(document, stopword_filtering, stemming))

\* LinearBooleanModel._get_matching_docs
LinearGetMatchingDocs(documents, term) ==
    {i - 1 : i \in {j \in DOMAIN documents : term \in documents[j]}}

\* LinearBooleanModel._negate_set
LinearNegateSet(documents, matching_docs) ==
    (0 .. Len(documents) - 1) \ matching_docs

------------------------------------------------------------------------------
(* SignatureBasedBooleanModel *)

\* Bit length of a signature and number of hash probes.  The constructor's
\* defaults are F=64, D=4 (models.py:250); the model explores small values,
\* for which every hash function can be enumerated.
SigF == 2
SigD == 1

\* documents and queries are cut into sections of 5 terms
WindowSize == 5

\* a signature matches when matching_bits / query_active_bits >= 0.75 = 3/4
ThresholdNum == 3
ThresholdDen == 4

\* The hash of (term, seed).  sha256 is modelled as an arbitrary function h
\* from (term, seed) to 0..F-1, given as a table over the terms of HashKeys;
\* every other string shares the table's row "*".
HashKey(keys, term) == IF term \in keys THEN term ELSE <<"*">>

HashFunction(h, term, seed) == h[HashKey(DOMAIN h, term)][seed]

\* _create_signature: a list of F bits, bit pos set for each term and probe
CreateSignature(h, terms) ==
    [pos \in 0 .. SigF - 1 |->
        IF \E k \in DOMAIN terms : \E i \in 0 .. SigD - 1 :
              HashFunction(h, Lower(terms[k]), i) = pos
        THEN 1 ELSE 0]

\* [terms[i:i+5] for i in range(0, len(terms), 5)]
Sections(terms) ==
    [k \in 1 .. ((Len(terms) + WindowSize - 1) \div WindowSize) |->
        SubSeq(terms, (k - 1) * WindowSize + 1,
               IF k * WindowSize < Len(terms) THEN k * WindowSize ELSE Len(terms))]

\* the list of section signatures of a term list
SectionSignatures(h, terms) ==
    LET sections == Sections(terms)
    IN  [k \in DOMAIN sections |-> CreateSignature(h, sections[k])]

\* SignatureBasedBooleanModel.__init__
SignatureInit == [documents |-> <<>>, signatures |-> <<>>]

\* SignatureBasedBooleanModel.document_to_representation: computes the
\* signatures and registers the document and its signatures in the model
SignatureDocumentToRepresentation(m, h, document, stopword_filtering, stemming) ==
    LET terms0 == IF stopword_filtering THEN document.filtered_terms
                                        ELSE document.terms
        terms  == IF stemming THEN document.stemmed_terms ELSE terms0
        doc_signatures == SectionSignatures(h, terms)
    IN  [documents |-> Append(m.documents, document),
         signatures |-> Append(m.signatures, doc_signatures)]

\* SignatureBasedBooleanModel.query_to_representation
SignatureQueryToRepresentation(h, query) ==
    SectionSignatures(h, Split(Lower(query)))

\* matching bits counted with | in place of &
MatchingBitsOr(doc_sig, query_sig) ==
    Cardinality({pos \in 0 .. SigF - 1 : doc_sig[pos] = 1 \/ query_sig[pos] = 1})

\* sum(1 for doc_bit, query_bit in zip(doc_sig, query_sig) if doc_bit & query_bit)
MatchingBits(doc_sig, query_sig) ==
    Cardinality({pos \in 0 .. SigF - 1 : doc_sig[pos] = 1 /\ query_sig[pos] = 1})

\* sum(query_sig)
ActiveBits(query_sig) == Cardinality({pos \in 0 .. SigF - 1 : query_sig[pos] = 1})

\* a match() that compares the document's first section only
SignatureMatchFirstSection(document_signatures, query_signatures) ==
    \E d \in (DOMAIN document_signatures) \cap {1} : \E q \in DOMAIN query_signatures :
        LET matching_bits == MatchingBits(document_signatures[d], query_signatures[q])
            query_active_bits == ActiveBits(query_signatures[q])
        IN  /\ query_active_bits > 0
            /\ matching_bits * ThresholdDen >= ThresholdNum * query_active_bits

\* SignatureBasedBooleanModel.match
SignatureMatch(document_signatures, query_signatures) ==
    \E d \in DOMAIN document_signatures : \E q \in DOMAIN query_signatures :
        LET matching_bits == MatchingBits(document_signatures[d], query_signatures[q])
            query_active_bits == ActiveBits(query_signatures[q])
        IN  /\ query_active_bits > 0
            /\ matching_bits * ThresholdDen >= ThresholdNum * query_active_bits

------------------------------------------------------------------------------
(* The query evaluators: the search() methods of the three boolean models  *)
(*                                                                         *)
(* A running search() is the record                                        *)
(*   tokens, pos      the token list and the index of the token the for    *)
(*                    loop is at                                           *)
(*   result_stack, operator_stack   the two lists (top = last element)     *)
(*   pc               "scan"  the for loop over the tokens                 *)
(*                    "binop" the while loop of an '&' or '|' token        *)
(*                    "close" the while loop of a ')' token (linear model) *)
(*                    "drain" the while loop after the tokens              *)
(*                    "done"  returned, "raised" left by an exception      *)
(*   result           the returned value                                   *)
(* An operand is a set of document positions; the signature model's list   *)
(* of booleans, one slot per document, is the set of its true slots.       *)
(* The model instance is the record ctx: kind ("inv" | "lin" | "sig") and  *)
(* the instance's fields.                                                  *)

\* the operator characters SignatureBasedBooleanModel.search splits on
SigOps == {"(", ")", "&", "|"}

\* InvertedListBooleanModel.query_to_representation
InvertedQueryToRepresentation(query) ==
    StripTokens(ReSplit(Lower(query), BoolOps, <<>>, <<>>))

\* the first statement of each search(): the token list
SearchTokens(kind, query) ==
    IF kind = "inv" THEN InvertedQueryToRepresentation(Lower(query))
    ELSE IF kind = "lin" THEN LinearQueryToRepresentation(query)
    ELSE StripTokens(ReSplit(Lower(query), SigOps, <<>>, <<>>))

\* the operand a term token pushes
TermOperand(ctx, token) ==
    IF ctx.kind = "inv"
    THEN (IF token \in DOMAIN ctx.inverted_index THEN ctx.inverted_index[token] ELSE {})
    ELSE IF ctx.kind = "lin"
    THEN LinearGetMatchingDocs(ctx.documents, token)
    ELSE LET query_signatures == SignatureQueryToRepresentation(ctx.hash, token)
         IN  {i - 1 : i \in {j \in DOMAIN ctx.signatures :
                                SignatureMatch(ctx.signatures[j], query_signatures)}}

\* a NOT that forgets the complement
NegateKeeps(ctx, left) == left

\* the NOT of an operand
Negate(ctx, left) ==
    IF ctx.kind = "inv" THEN ctx.all_docs \ left
    ELSE IF ctx.kind = "lin" THEN LinearNegateSet(ctx.documents, left)
    ELSE (0 .. Len(ctx.signatures) - 1) \ left

Top(stack) == stack[Len(stack)]
Pop(stack) == SubSeq(stack, 1, Len(stack) - 1)

\* apply_operator(), the closure the three search() methods define alike
ApplyOperator(st, ctx) ==
    LET rs == st.result_stack
        os == st.operator_stack
    IN  IF Len(rs) < 2 /\ Top(os) # "-"
        THEN st                           \* return: neither stack changes
        ELSE IF Top(os) # "-"
        THEN LET right == Top(rs)
                 left  == Top(Pop(rs))
                 rest  == Pop(Pop(rs))
                 operator == Top(os)
             IN  [st EXCEPT
                    !.operator_stack = Pop(os),
                    !.result_stack =
                        IF operator = "&" THEN Append(rest, left \cap right)
                        ELSE IF operator = "|" THEN Append(rest, left \cup right)
                        ELSE rest]        \* '(' : no branch appends
        ELSE IF rs = <<>>
        THEN [st EXCEPT !.pc = "raised"]  \* result_stack.pop(): IndexError
        ELSE [st EXCEPT
                !.operator_stack = Pop(os),
                !.result_stack = Append(Pop(rs), Negate(ctx, Top(rs)))]

\* one iteration of the for loop over the tokens
ScanStep(st, ctx) ==
    IF st.pos > Len(st.tokens) THEN [st EXCEPT !.pc = "drain"]
    ELSE LET token == st.tokens[st.pos]
         IN  IF token = <<"&">> \/ token = <<"|">>
             THEN [st EXCEPT !.pc = "binop"]
             ELSE IF token = <<"-">>
             THEN [st EXCEPT !.operator_stack = Append(@, "-"), !.pos = @ + 1]
             ELSE IF ctx.kind = "lin" /\ token = <<"(">>
             THEN [st EXCEPT !.operator_stack = Append(@, "("), !.pos = @ + 1]
             ELSE IF ctx.kind = "lin" /\ token = <<")">>
             THEN [st EXCEPT !.pc = "close"]
             ELSE [st EXCEPT !.result_stack = Append(@, TermOperand(ctx, token)),
                             !.pos = @ + 1]

\* an '&' / '|' token that is pushed without applying the operator below it
BinopStepPushOnly(st, ctx) ==
    [st EXCEPT !.operator_stack = Append(@, st.tokens[st.pos][1]),
               !.pos = @ + 1, !.pc = "scan"]

\* while operator_stack and operator_stack[-1] in ('&', '|'): apply_operator()
\* and then operator_stack.append(token)
BinopStep(st, ctx) ==
    IF st.operator_stack # <<>> /\ Top(st.operator_stack) \in {"&", "|"}
    THEN ApplyOperator(st, ctx)
    ELSE [st EXCEPT !.operator_stack = Append(@, st.tokens[st.pos][1]),
                    !.pos = @ + 1, !.pc = "scan"]

\* while operator_stack and operator_stack[-1] != '(': apply_operator()
\* and then operator_stack.pop()
CloseStep(st, ctx) ==
    IF st.operator_stack # <<>> /\ Top(st.operator_stack) # "("
    THEN ApplyOperator(st, ctx)
    ELSE IF st.operator_stack = <<>>
    THEN [st EXCEPT !.pc = "raised"]      \* operator_stack.pop(): IndexError
    ELSE [st EXCEPT !.operator_stack = Pop(@), !.pos = @ + 1, !.pc = "scan"]

\* while operator_stack: apply_operator()  and then the return statements
DrainStep(st, ctx) ==
    IF st.operator_stack # <<>> THEN ApplyOperator(st, ctx)
    ELSE IF st.result_stack = <<>>
    THEN [st EXCEPT !.pc = "done", !.result = {}]
    ELSE [st EXCEPT !.pc = "done", !.result = Top(st.result_stack),
                    !.result_stack = Pop(@)]

\* the next step of a running search()
SearchStep(st, ctx) ==
    IF st.pc = "scan" THEN ScanStep(st, ctx)
    ELSE IF st.pc = "binop" THEN BinopStep(st, ctx)
    ELSE IF st.pc = "close" THEN CloseStep(st, ctx)
    ELSE IF st.pc = "drain" THEN DrainStep(st, ctx)
    ELSE st

\* search(query) after its first statements
SearchStart(ctx, query) ==
    [tokens |-> SearchTokens(ctx.kind, query), pos |-> 1,
     result_stack |-> <<>>, operator_stack |-> <<>>,
     pc |-> "scan", result |-> {}]

\* A whole search() call.  The steps are deterministic, so a step that
\* changes nothing repeats forever: the call hangs (pc = "hung").
RECURSIVE SearchRun(_, _)
SearchRun(st, ctx) ==
    IF st.pc \in {"done", "raised"} THEN st
    ELSE LET nxt == SearchStep(st, ctx)
         IN  IF nxt = st THEN [st EXCEPT !.pc = "hung"] ELSE SearchRun(nxt, ctx)

Search(ctx, query) == SearchRun(SearchStart(ctx, query), ctx)

------------------------------------------------------------------------------
(* SpecEval: one search() call of a boolean model, step by step *)

\* the terms of the evaluator's collections and queries
Ta == <<"a">>
Tb == <<"b">>
Tc == <<"c">>
TB == <<"B">>

EvalTerms == {Ta, Tb, Tc}

TermsOnly(id, terms) == Doc(id, terms, <<>>, <<>>)

\* the collections a search() is run on: the two documents {a,b}, {a};
\* three documents with an upper-case term; the empty collection
EvalCollections ==
    { << TermsOnly(0, <<Ta, Tb>>), TermsOnly(1, <<Ta>>) >>,
      << TermsOnly(0, <<Ta>>), TermsOnly(1, <<TB, Tc>>), TermsOnly(2, <<Tc, Ta, Tc>>) >>,
      << >> }

\* the characters of a query string
QueryChars == {"a", "b", "c", " ", "&", "|", "-", "(", ")"}

\* all strings of at most n characters
RECURSIVE StringsUpTo(_)
StringsUpTo(n) ==
    IF n = 0 THEN {<<>>}
    ELSE LET shorter == StringsUpTo(n - 1)
         IN  shorter \cup {Append(s, c) : s \in {t \in shorter : Len(t) = n - 1},
                                          c \in QueryChars}

\* the well-formed queries of the documented shapes, written with spaces:
\* "x & y", "x | y", "-x", "x & (y | z)" and the like
ShapedQueries ==
    {x \o <<" ", o, " ">> \o y : x \in EvalTerms, y \in EvalTerms, o \in {"&", "|"}}
    \cup {<<"-">> \o x : x \in EvalTerms}
    \cup {x \o <<" ", o, " ", "(">> \o y \o <<" ", p, " ">> \o z \o <<")">> :
             x \in EvalTerms, y \in EvalTerms, z \in EvalTerms,
             o \in {"&", "|"}, p \in {"&", "|"}}

\* the most terms of a chain of terms joined by '&' and '|'
MaxChainTerms == 3

\* the chains of n terms joined by n - 1 binary operators, written without spaces
RECURSIVE Chains(_)
Chains(n) ==
    IF n = 1 THEN EvalTerms
    ELSE {c \o <<o>> \o x : c \in Chains(n - 1), o \in {"&", "|"}, x \in EvalTerms}

ChainQueries == UNION {Chains(n) : n \in 1 .. MaxChainTerms}

Queries == StringsUpTo(MaxQueryLen) \cup ShapedQueries \cup ChainQueries

\* the hash table of the evaluator's signature model: one fixed function
CharCode(c) == IF c = "a" THEN 0 ELSE IF c = "b" THEN 1 ELSE IF c = "c" THEN 2 ELSE 3

EvalHash ==
    [k \in EvalTerms \cup {<<"*">>} |->
        [i \in 0 .. SigD - 1 |-> (CharCode(k[1]) + i) % SigF]]

\* the documents a caller registers with a linear model
RECURSIVE LinearAddAll(_, _)
LinearAddAll(documents, coll) ==
    IF coll = <<>> THEN documents
    ELSE LinearAddAll(LinearAddDocument(documents, Head(coll), FALSE, FALSE),
                      Tail(coll))

\* for document in self.collection: model.document_to_representation(...)
RECURSIVE SignatureAddAll(_, _, _, _, _)
SignatureAddAll(m, h, coll, stopword_filtering, stemming) ==
    IF coll = <<>> THEN m
    ELSE SignatureAddAll(
            SignatureDocumentToRepresentation(m, h, Head(coll),
                                              stopword_filtering, stemming),
            h, Tail(coll), stopword_filtering, stemming)

\* a model instance of the given kind, filled from a collection
ModelOf(kind, coll) ==
    IF kind = "inv"
    THEN LET m == build_inverted_list(InvertedListInit, coll)
         IN  [kind |-> "inv", inverted_index |-> m.inverted_index, all_docs |-> m.all_docs]
    ELSE IF kind = "lin"
    THEN [kind |-> "lin", documents |-> LinearAddAll(<<>>, coll)]
    ELSE LET m == SignatureAddAll(SignatureInit, EvalHash, coll, FALSE, FALSE)
         IN  [kind |-> "sig", documents |-> m.documents, signatures |-> m.signatures,
              hash |-> EvalHash]

EvalInit ==
    /\ evQuery \in Queries
    /\ \E kind \in {"inv", "lin", "sig"} : \E coll \in EvalCollections :
          evCtx = ModelOf(kind, coll)
    /\ ev = SearchStart(evCtx, evQuery)
    /\ SigIdle /\ ReprIdle /\ SysIdle /\ CallIdle

\* the for loop takes the next token (or ends)
EvScan ==
    /\ ev.pc = "scan"
    /\ ev' = ScanStep(ev, evCtx)
    /\ UNCHANGED <<evCtx, evQuery, sigVars, reprVars, sysVars, callVars>>

\* one iteration of the while loop of an '&' / '|' token
EvBinop ==
    /\ ev.pc = "binop"
    /\ ev' = BinopStep(ev, evCtx)
    /\ UNCHANGED <<evCtx, evQuery, sigVars, reprVars, sysVars, callVars>>

\* one iteration of the while loop of a ')' token
EvClose ==
    /\ ev.pc = "close"
    /\ ev' = CloseStep(ev, evCtx)
    /\ UNCHANGED <<evCtx, evQuery, sigVars, reprVars, sysVars, callVars>>

\* one iteration of the final while loop, or the return
EvDrain ==
    /\ ev.pc = "drain"
    /\ ev' = DrainStep(ev, evCtx)
    /\ UNCHANGED <<evCtx, evQuery, sigVars, reprVars, sysVars, callVars>>

EvalNext == EvScan \/ EvBinop \/ EvClose \/ EvDrain

SpecEval == EvalInit /\ [][EvalNext]_vars

------------------------------------------------------------------------------
(* Claims about the query evaluators (SpecEval) *)

\* inverted_index[t], an absent term counting as the empty set
Postings(ctx, t) ==
    IF t \in DOMAIN ctx.inverted_index THEN ctx.inverted_index[t] ELSE {}

\* the query "x o y", written with or without spaces around the operator
Binary(x, o, y) == {x \o <<o>> \o y, x \o <<" ", o, " ">> \o y}

\* a call that is at a statement which changes nothing and so never returns
Hung(st, ctx) == st.pc \notin {"done", "raised"} /\ SearchStep(st, ctx) = st

\* search() is about to call apply_operator() with too few operands
Underflow(st) ==
    /\ st.pc \in {"binop", "close", "drain"}
    /\ st.operator_stack # <<>>
    /\ st.pc = "binop" => Top(st.operator_stack) \in {"&", "|"}
    /\ st.pc = "close" => Top(st.operator_stack) # "("
    /\ \/ Top(st.operator_stack) \in {"&", "|"} /\ Len(st.result_stack) < 2
       \/ Top(st.operator_stack) = "-" /\ st.result_stack = <<>>

\* C1: on an inverted-list model built from a collection, search("a & b")
\* returns inverted_index[a] \cap inverted_index[b], search("a | b") their
\* union and search("-a") all_docs minus inverted_index[a], an absent term
\* counting as the empty set; the call neither raises nor hangs.  On the
\* collection doc0 = {a,b}, doc1 = {a} the results are {0}, {0,1} and {}.
C1_BooleanBasics ==
    evCtx.kind = "inv" =>
      /\ \A x \in EvalTerms, y \in EvalTerms :
           /\ evQuery \in Binary(x, "&", y) =>
                /\ ev.pc # "raised" /\ ~Hung(ev, evCtx)
                /\ ev.pc = "done" => ev.result = Postings(evCtx, x) \cap Postings(evCtx, y)
           /\ evQuery \in Binary(x, "|", y) =>
                /\ ev.pc # "raised" /\ ~Hung(ev, evCtx)
                /\ ev.pc = "done" => ev.result = Postings(evCtx, x) \cup Postings(evCtx, y)
           /\ evQuery = <<"-">> \o x =>
                /\ ev.pc # "raised" /\ ~Hung(ev, evCtx)
                /\ ev.pc = "done" => ev.result = evCtx.all_docs \ Postings(evCtx, x)
      /\ (evCtx.all_docs = {0, 1} /\ ev.pc = "done") =>
           /\ evQuery \in Binary(Ta, "&", Tb) => ev.result = {0}
           /\ evQuery \in Binary(Ta, "|", Tb) => ev.result = {0, 1}
           /\ evQuery = <<"-">> \o Ta => ev.result = {}
           /\ evQuery = <<"-">> \o Tb => ev.result = {1}

\* C1 witness: "-b" has returned a set that is neither empty nor all_docs,
\* on a model where "a & b" would give a non-empty result too
C1_Witness ==
    /\ evCtx.kind = "inv"
    /\ evQuery = <<"-">> \o Tb
    /\ ev.pc = "done"
    /\ ev.result # {} /\ ev.result # evCtx.all_docs
    /\ Postings(evCtx, Ta) \cap Postings(evCtx, Tb) # {}

\* C2: on an inverted-list model, "a & (b | c)" returns
\* inverted_index[a] \cap (inverted_index[b] \cup inverted_index[c])
C2_Grouping ==
    \A x \in EvalTerms, y \in EvalTerms, z \in EvalTerms :
      (/\ evCtx.kind = "inv"
       /\ evQuery = x \o <<" ", "&", " ", "(">> \o y \o <<" ", "|", " ">> \o z \o <<")">>
       /\ ev.pc = "done")
      => ev.result = Postings(evCtx, x) \cap (Postings(evCtx, y) \cup Postings(evCtx, z))

\* C3: whenever the inverted-list search() applies an operator with too few
\* operands, the call returns an empty result (it does not raise)
C3_MalformedGivesEmpty ==
    (evCtx.kind = "inv" /\ Underflow(ev)) =>
        LET end == SearchRun(ev, evCtx)
        IN  end.pc = "done" /\ end.result = {}

\* C4: every search() call of the three boolean models terminates: the call
\* is never at a loop iteration that leaves both stacks and the position as
\* they are (the steps are deterministic, so such an iteration repeats forever)
C4_Terminates == ~Hung(ev, evCtx)

------------------------------------------------------------------------------
(* SpecSig: the signature functions on one document and one query, for     *)
(* every hash function                                                     *)

\* the terms of the document and of the query
SigDocWords == {Ta, Tb, <<"A">>}
SigQueryWords == {Ta, Tb}

\* every assignment of bit positions to (term, seed)
SigHashes == [SigQueryWords -> [0 .. SigD - 1 -> 0 .. SigF - 1]]

\* ' '.join(words)
RECURSIVE Join(_)
Join(words) ==
    IF words = <<>> THEN <<>>
    ELSE IF Len(words) = 1 THEN words[1]
    ELSE words[1] \o <<" ">> \o Join(Tail(words))

\* the query strings: up to MaxSigQueryTerms terms separated by one space
SigQueries ==
    {Join(ws) : ws \in UNION {[1 .. n -> SigQueryWords] : n \in 1 .. MaxSigQueryTerms}}

SigInit ==
    /\ sigHash \in SigHashes
    /\ sigDoc = <<>>
    /\ sigOut = [called |-> FALSE]
    /\ EvalIdle /\ ReprIdle /\ SysIdle /\ CallIdle

\* the document gets one more term
SigAddTerm ==
    /\ ~sigOut.called
    /\ Len(sigDoc) < MaxSigDocLen
    /\ \E w \in SigDocWords : sigDoc' = Append(sigDoc, w)
    /\ UNCHANGED <<sigHash, sigOut, evalVars, reprVars, sysVars, callVars>>

\* document_to_representation(document), query_to_representation(query) and
\* match() of the two on a fresh model
SigMatchQuery ==
    /\ ~sigOut.called
    /\ \E query \in SigQueries :
         LET m == SignatureDocumentToRepresentation(
                      SignatureInit, sigHash, TermsOnly(0, sigDoc), FALSE, FALSE)
             document_signatures == m.signatures[1]
             query_signatures == SignatureQueryToRepresentation(sigHash, query)
         IN  sigOut' = [called |-> TRUE, query |-> query,
                        document_signatures |-> document_signatures,
                        query_signatures |-> query_signatures,
                        match |-> SignatureMatch(document_signatures, query_signatures)]
    /\ UNCHANGED <<sigHash, sigDoc, evalVars, reprVars, sysVars, callVars>>

SigNext == SigAddTerm \/ SigMatchQuery

SpecSig == SigInit /\ [][SigNext]_vars

------------------------------------------------------------------------------
(* Claims about the signature model (SpecSig) *)

\* the case-folded terms of a term list
Folded(terms) == {Lower(terms[i]) : i \in DOMAIN terms}

\* the bit positions the hash gives the terms of a set
Positions(h, termset) ==
    {HashFunction(h, t, i) : t \in termset, i \in 0 .. SigD - 1}

\* the bits set in both signatures
CommonBits(doc_sig, query_sig) ==
    {pos \in DOMAIN doc_sig : doc_sig[pos] = 1 /\ query_sig[pos] = 1}

\* C9: for any hash function, if some window of the document contains every
\* term of a (non-empty) window of the query, match() is True: every bit of
\* that query signature is set in that document signature
C9_NoFalseNegative ==
    sigOut.called =>
      LET dwin == Sections(sigDoc)
          qwin == Sections(Split(Lower(sigOut.query)))
      IN  \A d \in DOMAIN dwin : \A q \in DOMAIN qwin :
            (qwin[q] # <<>> /\ Folded(qwin[q]) \subseteq Folded(dwin[d])) =>
               /\ sigOut.match = TRUE
               /\ \A pos \in 0 .. SigF - 1 :
                     sigOut.query_signatures[q][pos] = 1 =>
                        sigOut.document_signatures[d][pos] = 1

\* C9 witness: the second window of a document holds the query's two terms,
\* the first holds neither of them in full, and match() returned True
C9_Witness ==
    /\ sigOut.called
    /\ Len(sigDoc) > WindowSize
    /\ Len(Split(sigOut.query)) > 1
    /\ ~(Folded(Split(sigOut.query)) \subseteq Folded(Sections(sigDoc)[1]))
    /\ Folded(Split(sigOut.query)) \subseteq Folded(Sections(sigDoc)[2])
    /\ sigOut.match = TRUE

\* C10 as claimed: for every hash function, a document none of whose terms
\* occurs in a query window has no bit in common with that window's
\* signature, and match() of the document and that window is False
C10_NoSharedTermNoMatch ==
    sigOut.called =>
      LET qwin == Sections(Split(Lower(sigOut.query)))
      IN  \A q \in DOMAIN qwin :
            Folded(sigDoc) \cap Folded(qwin[q]) = {} =>
               /\ \A d \in DOMAIN sigOut.document_signatures :
                     CommonBits(sigOut.document_signatures[d],
                                sigOut.query_signatures[q]) = {}
               /\ ~SignatureMatch(sigOut.document_signatures,
                                  <<sigOut.query_signatures[q]>>)

\* C10 amended: the same, for the hash functions that give the document's
\* terms no bit position that a term of the query window has
C10_NoSharedBitNoMatch ==
    sigOut.called =>
      LET qwin == Sections(Split(Lower(sigOut.query)))
      IN  \A q \in DOMAIN qwin :
            (/\ Folded(sigDoc) \cap Folded(qwin[q]) = {}
             /\ Positions(sigHash, Folded(sigDoc))
                   \cap Positions(sigHash, Folded(qwin[q])) = {}) =>
               /\ \A d \in DOMAIN sigOut.document_signatures :
                     CommonBits(sigOut.document_signatures[d],
                                sigOut.query_signatures[q]) = {}
               /\ ~SignatureMatch(sigOut.document_signatures,
                                  <<sigOut.query_signatures[q]>>)
               /\ sigOut.match = FALSE

\* C10 witness: a document of two windows and a query that share no term and
\* no bit position, and match() returned False
C10_Witness ==
    /\ sigOut.called
    /\ Len(sigDoc) > WindowSize
    /\ Folded(sigDoc) \cap Folded(Split(sigOut.query)) = {}
    /\ Positions(sigHash, Folded(sigDoc))
          \cap Positions(sigHash, Folded(Split(sigOut.query))) = {}
    /\ sigOut.match = FALSE

------------------------------------------------------------------------------
(* porter.py: the stemmer *)

\* the character classes of the regular expressions
Aeiou == {"a", "e", "i", "o", "u"}
Aeiouy == {"a", "e", "i", "o", "u", "y"}

\* str.endswith(suffix)
EndsWith(term, suffix) ==
    /\ Len(suffix) <= Len(term)
    /\ SubSeq(term, Len(term) - Len(suffix) + 1, Len(term)) = suffix

\* term[:-n] for n >= 1 (the empty string when the term has at most n characters)
DropLast(term, n) == SubSeq(term, 1, Len(term) - n)

\* get_measure: len(re.findall("^[^aeiou]*([aeiouy][^aeiou])", term)).  The
\* pattern is anchored at the start of the term, so it matches at most once:
\* the result is 1 if some position k holds a character of [aeiouy] followed
\* by one of [^aeiou], with only [^aeiou] characters before k, and 0 otherwise
get_measure(term) ==
    IF \E k \in 1 .. Len(term) - 1 :
          /\ \A j \in 1 .. k - 1 : term[j] \notin Aeiou
          /\ term[k] \in Aeiouy
          /\ term[k + 1] \notin Aeiou
    THEN 1 ELSE 0

\* condition_v: re.search("[aeiouy]", stem)
condition_v(stem) == \E k \in DOMAIN stem : stem[k] \in Aeiouy

\* condition_d: re.search(r"(.)\1$", stem)
condition_d(stem) == Len(stem) >= 2 /\ stem[Len(stem)] = stem[Len(stem) - 1]

\* cond_o: re.search("[^aeiou][aeiouy][^aeiou][^wxy]$", stem): four characters
cond_o(stem) ==
    LET n == Len(stem)
    IN  /\ n >= 4
        /\ stem[n - 3] \notin Aeiou
        /\ stem[n - 2] \in Aeiouy
        /\ stem[n - 1] \notin Aeiou
        /\ stem[n] \notin {"w", "x", "y"}

\* Step 1a
Step1a(term) ==
    IF EndsWith(term, <<"s", "s", "e", "s">>) THEN DropLast(term, 2)
    ELSE IF EndsWith(term, <<"i", "e", "s">>) THEN DropLast(term, 2)
    ELSE IF EndsWith(term, <<"s", "s">>) THEN term
    ELSE IF EndsWith(term, <<"s">>) THEN DropLast(term, 1)
    ELSE term

\* the rules applied after -ed or -ing has been removed
Step1bCleanup(term) ==
    IF \/ EndsWith(term, <<"a", "t">>) \/ EndsWith(term, <<"b", "l">>)
       \/ EndsWith(term, <<"i", "z">>)
    THEN Append(term, "e")
    ELSE IF condition_d(term) /\ term[Len(term)] \notin {"l", "s", "z"}
    THEN DropLast(term, 1)
    ELSE IF cond_o(term) THEN Append(term, "e")
    ELSE term

\* Step 1b
Step1b(term) ==
    IF EndsWith(term, <<"e", "e", "d">>)
    THEN (IF get_measure(DropLast(term, 3)) > 0 THEN DropLast(term, 1) ELSE term)
    ELSE IF EndsWith(term, <<"e", "d">>)
    THEN (IF condition_v(DropLast(term, 2))
          THEN Step1bCleanup(DropLast(term, 2)) ELSE term)
    ELSE IF EndsWith(term, <<"i", "n", "g">>)
    THEN (IF condition_v(DropLast(term, 3))
          THEN Step1bCleanup(DropLast(term, 3)) ELSE term)
    ELSE term

\* Step 1c
Step1c(term) ==
    IF EndsWith(term, <<"y">>) /\ condition_v(DropLast(term, 1))
    THEN Append(DropLast(term, 1), "i")
    ELSE term

step_2_suffixes ==
    <<
        <<<<"a", "t", "i", "o", "n", "a", "l">>, <<"a", "t", "e">>>>,
        <<<<"t", "i", "o", "n", "a", "l">>, <<"t", "i", "o", "n">>>>,
        <<<<"e", "n", "c", "i">>, <<"e", "n", "c", "e">>>>,
        <<<<"a", "n", "c", "i">>, <<"a", "n", "c", "e">>>>,
        <<<<"i", "z", "e", "r">>, <<"i", "z", "e">>>>,
        <<<<"a", "b", "l", "i">>, <<"a", "b", "l", "e">>>>,
        <<<<"a", "l", "l", "i">>, <<"a", "l">>>>,
        <<<<"e", "n", "t", "l", "i">>, <<"e", "n", "t">>>>,
        <<<<"e", "l", "i">>, <<"e">>>>,
        <<<<"o", "u", "s", "l", "i">>, <<"o", "u", "s">>>>,
        <<<<"i", "z", "a", "t", "i", "o", "n">>, <<"i", "z", "e">>>>,
        <<<<"a", "t", "i", "o", "n">>, <<"a", "t", "e">>>>,
        <<<<"a", "t", "o", "r">>, <<"a", "t", "e">>>>,
        <<<<"a", "l", "i", "s", "m">>, <<"a", "l">>>>,
        <<<<"i", "v", "e", "n", "e", "s", "s">>, <<"i", "v", "e">>>>,
        <<<<"f", "u", "l", "n", "e", "s", "s">>, <<"f", "u", "l">>>>,
        <<<<"o", "u", "s", "n", "e", "s", "s">>, <<"o", "u", "s">>>>,
        <<<<"a", "l", "i", "t", "i">>, <<"a", "l">>>>,
        <<<<"i", "v", "i", "t", "i">>, <<"i", "v", "e">>>>,
        <<<<"b", "i", "l", "i", "t", "i">>, <<"b", "l", "e">>>> >>

step_3_suffixes ==
    <<
        <<<<"i", "c", "a", "t", "e">>, <<"i", "c">>>>,
        <<<<"a", "t", "i", "v", "e">>, <<>>>>,
        <<<<"a", "l", "i", "z", "e">>, <<"a", "l">>>>,
        <<<<"i", "c", "i", "t", "i">>, <<"i", "c">>>>,
        <<<<"i", "c", "a", "l">>, <<"i", "c">>>>,
        <<<<"f", "u", "l">>, <<>>>>,
        <<<<"n", "e", "s", "s">>, <<>>>> >>

step_4_suffixes ==
    <<<<"a", "l">>, <<"a", "n", "c", "e">>, <<"e", "n", "c", "e">>,
      <<"e", "r">>, <<"i", "c">>, <<"a", "b", "l", "e">>,
      <<"i", "b", "l", "e">>, <<"a", "n", "t">>, <<"e", "m", "e", "n", "t">>,
      <<"m", "e", "n", "t">>, <<"e", "n", "t">>, <<"s", "i", "o", "n">>,
      <<"t", "i", "o", "n">>, <<"o", "u">>, <<"i", "s", "m">>,
      <<"a", "t", "e">>, <<"i", "t", "i">>, <<"o", "u", "s">>,
      <<"i", "v", "e">>, <<"i", "z", "e">> >>

\* for suffix, replacement in rules: the first rule whose suffix ends the
\* term and whose stem has a measure above min_measure rewrites it
RECURSIVE ApplyRules(_, _, _, _)
ApplyRules(term, rules, i, min_measure) ==
    IF i > Len(rules) THEN term
    ELSE LET suffix == rules[i][1]
             replacement == rules[i][2]
         IN  IF /\ EndsWith(term, suffix)
                /\ get_measure(DropLast(term, Len(suffix))) > min_measure
             THEN DropLast(term, Len(suffix)) \o replacement
             ELSE ApplyRules(term, rules, i + 1, min_measure)

Step2(term) == ApplyRules(term, step_2_suffixes, 1, 0)

Step3(term) == ApplyRules(term, step_3_suffixes, 1, 0)

Step4(term) ==
    ApplyRules(term, [i \in DOMAIN step_4_suffixes |-> <<step_4_suffixes[i], <<>>>>], 1, 1)

\* Step 5a
Step5a(term) ==
    IF /\ EndsWith(term, <<"e">>)
       /\ \/ get_measure(DropLast(term, 1)) > 1
          \/ get_measure(DropLast(term, 1)) = 1 /\ ~cond_o(DropLast(term, 1))
    THEN DropLast(term, 1)
    ELSE term

\* Step 5b
Step5b(term) ==
    IF get_measure(term) > 1 /\ condition_d(term) /\ EndsWith(term, <<"l">>)
    THEN DropLast(term, 1)
    ELSE term

\* stem_term
stem_term(term) == Step5b(Step5a(Step4(Step3(Step2(Step1c(Step1b(Step1a(term))))))))

\* [stem_term(term) for term in terms]
StemAll(terms) == [i \in DOMAIN terms |-> stem_term(terms[i])]

\* stem_query_terms: ' '.join(stem_term(term) for term in query.split())
stem_query_terms(query) == Join(StemAll(Split(query)))

------------------------------------------------------------------------------
(* cleanup.py: symbol and stop word removal *)

\* string.punctuation (the grave accent, which no modelled text holds, cannot
\* be written as a TLA+ string and is left out)
Punctuation ==
    {"!", "\"", "#", "$", "%", "&", "'", "(", ")", "*", "+", ",", "-", ".", "/",
     ":", ";", "<", "=", ">", "?", "@", "[", "\\", "]", "^", "_", "{", "|",
     "}", "~"}

\* text_string.replace("'s", "")
RECURSIVE RemoveApostropheS(_)
RemoveApostropheS(s) ==
    IF s = <<>> THEN <<>>
    ELSE IF Len(s) >= 2 /\ s[1] = "'" /\ s[2] = "s"
         THEN RemoveApostropheS(SubSeq(s, 3, Len(s)))
         ELSE <<s[1]>> \o RemoveApostropheS(Tail(s))

\* remove_symbols
remove_symbols(text_string) ==
    SelectSeq(RemoveApostropheS(text_string), LAMBDA c : c \notin Punctuation)

\* x in s for two strings: x is a substring of s
IsSubstring(x, s) ==
    \E i \in 0 .. Len(s) - Len(x) : SubSeq(s, i + 1, i + Len(x)) = x

\* A stop_word_list argument is a list of strings or, as Python allows, one
\* string: [isList |-> TRUE, list |-> <<...>>] or [isList |-> FALSE, str |-> s]
StopList(words) == [isList |-> TRUE, list |-> words]
StopStr(s) == [isList |-> FALSE, str |-> s]

\* is_stop_word: term.lower() in stop_word_list
is_stop_word(term, stop_word_list) ==
    IF stop_word_list.isList
    THEN Lower(term) \in Range(stop_word_list.list)
    ELSE IsSubstring(Lower(term), stop_word_list.str)

\* a remove_stop_words_from_term_list that keeps the terms as they were given
RECURSIVE remove_stop_words_keeping_symbols(_, _)
remove_stop_words_keeping_symbols(term_list, stop_word_list) ==
    IF term_list = <<>> THEN <<>>
    ELSE LET term == Head(term_list)
             rest == remove_stop_words_keeping_symbols(Tail(term_list), stop_word_list)
         IN  IF ~is_stop_word(remove_symbols(term), stop_word_list)
             THEN <<term>> \o rest ELSE rest

\* remove_stop_words_from_term_list
RECURSIVE remove_stop_words_from_term_list(_, _)
remove_stop_words_from_term_list(term_list, stop_word_list) ==
    IF term_list = <<>> THEN <<>>
    ELSE LET term == remove_symbols(Head(term_list))
             rest == remove_stop_words_from_term_list(Tail(term_list), stop_word_list)
         IN  IF ~is_stop_word(term, stop_word_list) THEN <<term>> \o rest ELSE rest

\* filter_collection
filter_collection(coll, stop_word_list) ==
    [i \in DOMAIN coll |->
        [coll[i] EXCEPT
            !.filtered_terms =
                remove_stop_words_from_term_list(coll[i].terms, stop_word_list)]]

\* stem_all_docs (porter.py)
stem_all_docs(doc_collection) ==
    [i \in DOMAIN doc_collection |->
        [doc_collection[i] EXCEPT !.stemmed_terms = StemAll(doc_collection[i].terms)]]

------------------------------------------------------------------------------
(* extraction.py *)

\* Document(): the term lists of a new document are empty
NewDocument == Doc(-1, <<>>, <<>>, <<>>)

\* The pieces of a source file, from the start marker on: content.split of
\* four newlines.  A piece is the list of its parts, fable.strip().split of
\* two newlines, and a part is the list of its words.
\* The marker "Aesop's Fables\n\n\n\n  The Cock and the Pearl" makes the
\* first piece the heading alone.
HeadingPiece == << << <<"A", "e", "s", "o", "p", "'", "s">>,
                      <<"F", "a", "b", "l", "e", "s">> >> >>

\* the words of a list of parts: ' '.join(parts[1:]) ... .split()
RECURSIVE Words(_)
Words(parts) == IF parts = <<>> THEN <<>> ELSE Head(parts) \o Words(Tail(parts))

\* the loop of extract_collection over enumerate(fables), from piece i on
RECURSIVE ExtractFrom(_, _, _)
ExtractFrom(pieces, i, catalog) ==
    IF i > Len(pieces) THEN catalog
    ELSE LET parts == pieces[i]
             doc_id == i - 1
         IN  IF Len(parts) < 2
             THEN ExtractFrom(pieces, i + 1, catalog)      \* continue
             ELSE ExtractFrom(pieces, i + 1,
                      Append(catalog, [NewDocument EXCEPT !.document_id = doc_id,
                                                          !.terms = Words(Tail(parts))]))

\* a fable of one title and one paragraph
TitleWord == <<"T">>
FablePiece(terms) == << <<TitleWord>>, terms >>

\* extract_collection of a file that holds, after the heading, the given
\* fables, each a title and one paragraph of the given terms
extract_collection(fables) ==
    ExtractFrom(<<HeadingPiece>> \o [i \in DOMAIN fables |-> FablePiece(fables[i])],
                1, <<>>)

------------------------------------------------------------------------------
(* Scores.  A score is an exact fraction in lowest terms with a positive
   denominator; the vector model's cosine c is carried as its signed square
   c*|c|, which orders and compares to zero as c does. *)

RECURSIVE GCD(_, _)
GCD(a, b) == IF b = 0 THEN a ELSE GCD(b, a % b)

Abs(x) == IF x < 0 THEN -x ELSE x

Frac(n, d) ==
    LET g == GCD(Abs(n), d) IN [num |-> n \div g, den |-> d \div g]

\* a / b < c / d for non-negative a, c and positive b, d, by continued
\* fractions (no product is formed)
RECURSIVE PosFracLess(_, _, _, _)
PosFracLess(a, b, c, d) ==
    LET qa == a \div b
        qc == c \div d
        ra == a % b
        rc == c % d
    IN  IF qa # qc THEN qa < qc
        ELSE IF rc = 0 THEN FALSE
        ELSE IF ra = 0 THEN TRUE
        ELSE PosFracLess(d, rc, b, ra)

\* x < y for two scores
ScoreLess(x, y) ==
    IF x.num < 0 /\ y.num >= 0 THEN TRUE
    ELSE IF x.num >= 0 /\ y.num < 0 THEN FALSE
    ELSE IF x.num >= 0 THEN PosFracLess(x.num, x.den, y.num, y.den)
    ELSE PosFracLess(-y.num, y.den, -x.num, x.den)

------------------------------------------------------------------------------
(* VectorSpaceModel.  inverted_index is a dict in insertion order: a sequence
   of entries [term, postings], postings a sequence of <<doc_id, freq>>. *)

\* VectorSpaceModel.__init__
VectorInit ==
    [inverted_index |-> <<>>, document_vectors |-> EmptyDict,
     doc_lengths |-> EmptyDict, num_documents |-> 0]

\* Counter(terms): the distinct terms in order of first occurrence, and a count
RECURSIVE CounterKeys(_, _)
CounterKeys(terms, acc) ==
    IF terms = <<>> THEN acc
    ELSE CounterKeys(Tail(terms),
                     IF Head(terms) \in Range(acc) THEN acc ELSE Append(acc, Head(terms)))

Count(terms, t) == Cardinality({i \in DOMAIN terms : terms[i] = t})

LowerAll(terms) == [i \in DOMAIN terms |-> Lower(terms[i])]

\* self.inverted_index[term].append((doc_id, freq)) on the defaultdict
AddPosting(index, term, doc_id, freq) ==
    IF \E k \in DOMAIN index : index[k].term = term
    THEN [k \in DOMAIN index |->
            IF index[k].term = term
            THEN [index[k] EXCEPT !.postings = Append(@, <<doc_id, freq>>)]
            ELSE index[k]]
    ELSE Append(index, [term |-> term, postings |-> <<<<doc_id, freq>>>>])

\* for term, freq in term_freq.items()
RECURSIVE IndexCounter(_, _, _, _)
IndexCounter(index, keys, lowered, doc_id) ==
    IF keys = <<>> THEN index
    ELSE IndexCounter(AddPosting(index, Head(keys), doc_id, Count(lowered, Head(keys))),
                      Tail(keys), lowered, doc_id)

\* the first loop of build_inverted_index, from the document at position i
RECURSIVE IndexDocuments(_, _, _)
IndexDocuments(index, documents, i) ==
    IF i > Len(documents) THEN index
    ELSE LET lowered == LowerAll(documents[i].terms)
         IN  IndexDocuments(IndexCounter(index, CounterKeys(lowered, <<>>), lowered, i - 1),
                            documents, i + 1)

\* round(10 * ln n): math.log to one decimal
Ln10 == <<0, 7, 11, 14, 16, 18, 19, 21>>

\* math.log(self.num_documents / len(self.inverted_index[term])), in tenths
Idf(m, k) == Ln10[m.num_documents] - Ln10[Len(m.inverted_index[k].postings)]

\* the tf * idf vector over the vocabulary of the index, for lower-cased terms
WeightVector(m, lowered) ==
    [k \in DOMAIN m.inverted_index |->
        LET tf == Count(lowered, m.inverted_index[k].term)
        IN  IF tf > 0 THEN tf * Idf(m, k) ELSE 0]

\* a document vector built without lower-casing the terms
CreateDocumentVectorAsWritten(m, terms) == WeightVector(m, terms)

\* VectorSpaceModel._create_document_vector
CreateDocumentVector(m, terms) == WeightVector(m, LowerAll(terms))

RECURSIVE SumSeq(_)
SumSeq(s) == IF s = <<>> THEN 0 ELSE Head(s) + SumSeq(Tail(s))

\* np.dot of two vectors over the vocabulary of one index
Dot(u, v) == SumSeq([k \in DOMAIN u |-> u[k] * v[k]])

\* np.linalg.norm, squared
Norm2(v) == Dot(v, v)

\* VectorSpaceModel.build_inverted_index; doc_lengths holds the squared norms
build_inverted_index(m, documents) ==
    LET m1 == [m EXCEPT !.num_documents = Len(documents),
                        !.inverted_index = IndexDocuments(m.inverted_index, documents, 1)]
        vectors ==
            [doc_id \in (DOMAIN m.document_vectors) \cup (0 .. Len(documents) - 1) |->
                IF doc_id < Len(documents)
                THEN CreateDocumentVector(m1, documents[doc_id + 1].terms)
                ELSE m.document_vectors[doc_id]]
    IN  [m1 EXCEPT !.document_vectors = vectors,
                   !.doc_lengths = [doc_id \in DOMAIN vectors |-> Norm2(vectors[doc_id])]]

\* a selection in which stop word filtering overrides stemming
VectorDocumentToRepresentationFilterFirst(m, document, stopword_filtering, stemming) ==
    LET terms0 == IF stemming THEN document.stemmed_terms ELSE document.terms
        terms  == IF stopword_filtering THEN document.filtered_terms ELSE terms0
    IN  CreateDocumentVector(m, terms)

\* VectorSpaceModel.document_to_representation
VectorDocumentToRepresentation(m, document, stopword_filtering, stemming) ==
    LET terms0 == IF stopword_filtering THEN document.filtered_terms
                                        ELSE document.terms
        terms  == IF stemming THEN document.stemmed_terms ELSE terms0
    IN  CreateDocumentVector(m, terms)

\* VectorSpaceModel.query_to_representation
VectorQueryToRepresentation(m, query) == WeightVector(m, Split(Lower(query)))

\* VectorSpaceModel.match
VectorMatch(document_representation, query_representation) ==
    IF Norm2(document_representation) = 0 \/ Norm2(query_representation) = 0
    THEN Frac(0, 1)
    ELSE LET dot == Dot(document_representation, query_representation)
         IN  Frac(dot * Abs(dot),
                  Norm2(document_representation) * Norm2(query_representation))

\* InvertedListBooleanModel.document_to_representation: {term: 1 for term in
\* term_counter}, a dict whose values are all 1, modelled as the set of its keys
InvertedListDocumentToRepresentation(document, stopword_filtering, stemming) ==
    LET terms0 == IF stopword_filtering THEN document.filtered_terms
                                        ELSE document.terms
        terms  == IF stemming THEN document.stemmed_terms ELSE terms0
    IN  Range(CounterKeys(LowerAll(terms), <<>>))

------------------------------------------------------------------------------
(* SpecRepr: document_to_representation of each model on one document *)

\* the term list a document may hold in terms, filtered_terms, stemmed_terms
ReprTermLists == {<<Ta>>, <<TB, Tc>>, <<>>}

\* the vector model's index is built from this collection
ReprCollection ==
    << TermsOnly(0, <<Ta, Tb>>), TermsOnly(1, <<Tb, Tc>>), TermsOnly(2, <<Tc>>) >>

ReprVectorModel == build_inverted_index(VectorInit, ReprCollection)

ReprInit ==
    /\ \E terms \in ReprTermLists, filtered \in ReprTermLists,
          stemmed \in ReprTermLists, sw \in BOOLEAN, st \in BOOLEAN :
          rep = [document |-> Doc(0, terms, filtered, stemmed),
                 stopword_filtering |-> sw, stemming |-> st,
                 model |-> "none", out |-> <<>>]
    /\ EvalIdle /\ SigIdle /\ SysIdle /\ CallIdle

\* LinearBooleanModel().document_to_representation(document, flags)
ReprLinear ==
    /\ rep.model = "none"
    /\ rep' = [rep EXCEPT !.model = "lin",
                 !.out = LinearDocumentToRepresentation(
                             rep.document, rep.stopword_filtering, rep.stemming)]
    /\ UNCHANGED <<evalVars, sigVars, sysVars, callVars>>

\* InvertedListBooleanModel().document_to_representation(document, flags)
ReprInverted ==
    /\ rep.model = "none"
    /\ rep' = [rep EXCEPT !.model = "inv",
                 !.out = InvertedListDocumentToRepresentation(
                             rep.document, rep.stopword_filtering, rep.stemming)]
    /\ UNCHANGED <<evalVars, sigVars, sysVars, callVars>>

\* SignatureBasedBooleanModel().document_to_representation(document, flags):
\* out is the model afterwards, its documents and signatures
ReprSignature ==
    /\ rep.model = "none"
    /\ rep' = [rep EXCEPT !.model = "sig",
                 !.out = SignatureDocumentToRepresentation(
                             SignatureInit, EvalHash, rep.document,
                             rep.stopword_filtering, rep.stemming)]
    /\ UNCHANGED <<evalVars, sigVars, sysVars, callVars>>

\* document_to_representation(document, flags) of a built VectorSpaceModel
ReprVector ==
    /\ rep.model = "none"
    /\ rep' = [rep EXCEPT !.model = "vec",
                 !.out = VectorDocumentToRepresentation(
                             ReprVectorModel, rep.document,
                             rep.stopword_filtering, rep.stemming)]
    /\ UNCHANGED <<evalVars, sigVars, sysVars, callVars>>

ReprNext == ReprLinear \/ ReprInverted \/ ReprSignature \/ ReprVector

SpecRepr == ReprInit /\ [][ReprNext]_vars

------------------------------------------------------------------------------
(* Claims about document_to_representation (SpecRepr) *)

\* the term list the flags select: stemming first, then stop word filtering
SelectedTerms(document, stopword_filtering, stemming) ==
    IF stemming THEN document.stemmed_terms
    ELSE IF stopword_filtering THEN document.filtered_terms
    ELSE document.terms

UpperCaseLetters ==
    {"A", "B", "C", "D", "E", "F", "G", "H", "I", "J", "K", "L", "M",
     "N", "O", "P", "Q", "R", "S", "T", "U", "V", "W", "X", "Y", "Z"}

\* C6: in each of the four models the representation is built from
\* stemmed_terms when stemming is set, else from filtered_terms when stop word
\* filtering is set, else from terms, and from the lower-cased terms: the
\* linear and inverted-list key sets are the lower-cased selected terms and
\* hold no upper-case letter, the signature model registers the document with
\* the section signatures of the selected list, the vector is the tf-idf
\* vector of the lower-cased selected list.
C6_FlagSemantics ==
    LET selected == SelectedTerms(rep.document, rep.stopword_filtering, rep.stemming)
    IN  /\ rep.model \in {"lin", "inv"} =>
             /\ rep.out = Folded(selected)
             /\ \A t \in rep.out : Range(t) \cap UpperCaseLetters = {}
        /\ rep.model = "sig" =>
             /\ rep.out.documents = <<rep.document>>
             /\ rep.out.signatures = <<SectionSignatures(EvalHash, LowerAll(selected))>>
        /\ rep.model = "vec" =>
             rep.out = WeightVector(ReprVectorModel, LowerAll(selected))

\* a vector built with both flags set from a document whose three lists give
\* three different vectors
C6_Witness ==
    /\ rep.model = "vec" /\ rep.stemming /\ rep.stopword_filtering
    /\ rep.document.stemmed_terms = <<TB, Tc>>
    /\ rep.document.filtered_terms = <<Ta>>
    /\ rep.document.terms = <<>>
    /\ rep.out = <<0, 4, 4>>

------------------------------------------------------------------------------
(* ir_system.py: the search routines.  A result list is a sequence of
   [score, doc]; doc is the position (from 1) of the returned Document in the
   list it was taken from. *)

\* STOPWORD_FILE_PATH
STOPWORD_FILE_PATH ==
    <<"d", "a", "t", "a", "/", "s", "t", "o", "p", "w", "o", "r", "d", "s",
      ".", "j", "s", "o", "n">>

\* the elements of a set of naturals in increasing order
RECURSIVE Ascending(_)
Ascending(S) ==
    IF S = {} THEN <<>>
    ELSE LET x == CHOOSE y \in S : \A z \in S : y <= z
         IN  <<x>> \o Ascending(S \ {x})

\* one insertion of an unstable descending sort: x goes before its equals
InsertBeforeEquals(sorted, x) ==
    LET k == Cardinality({i \in DOMAIN sorted : ScoreLess(x.score, sorted[i].score)})
    IN  SubSeq(sorted, 1, k) \o <<x>> \o SubSeq(sorted, k + 1, Len(sorted))

\* one insertion of sorted(..., reverse=True): x goes after every element
\* whose score is not lower, so that equal scores keep their order
InsertDescending(sorted, x) ==
    LET k == Cardinality({i \in DOMAIN sorted : ~ScoreLess(sorted[i].score, x.score)})
    IN  SubSeq(sorted, 1, k) \o <<x>> \o SubSeq(sorted, k + 1, Len(sorted))

\* sorted(pairs, key=lambda x: x[0], reverse=True)
RECURSIVE SortedReverse(_, _)
SortedReverse(pairs, acc) ==
    IF pairs = <<>> THEN acc
    ELSE SortedReverse(Tail(pairs), InsertDescending(acc, Head(pairs)))

\* zip(scores, self.collection), sorted, then [r for r in ranked if r[0] > 0]
RankedResults(scores) ==
    LET pairs == [i \in DOMAIN scores |-> [score |-> scores[i], doc |-> i]]
    IN  SelectSeq(SortedReverse(pairs, <<>>), LAMBDA r : r.score.num > 0)

\* what a search routine leaves: the model and index attributes, how the call
\* ended ("returned" | "raised" | "hung"), the scores and the result list
Outcome(m, il, how, scores, results) ==
    [model |-> m, inverted_list |-> il, outcome |-> how,
     scores |-> scores, results |-> results]

\* basic_query_search with a LinearBooleanModel
basic_query_search(m, il, coll, query, stemming, stop_word_filtering) ==
    LET query_representation == LinearQueryToRepresentation(query)
        document_representations ==
            [i \in DOMAIN coll |->
                LinearDocumentToRepresentation(coll[i], stop_word_filtering, stemming)]
        scores ==
            [i \in DOMAIN coll |->
                Frac(LinearMatch(document_representations[i], query_representation), 1)]
    IN  Outcome(m, il, "returned", scores, RankedResults(scores))

\* inverted_list_search: the index is built when the attribute is not set
inverted_list_search(m, il, coll, query, stemming, stop_word_filtering) ==
    LET built == build_inverted_list(InvertedListInit, coll)
        index == IF il.kind = "none"
                 THEN [kind |-> "inv", inverted_index |-> built.inverted_index,
                       all_docs |-> built.all_docs]
                 ELSE il
        call == Search(index, query)
        doc_ids == Ascending(call.result)
    IN  IF call.pc # "done"
        THEN Outcome(m, index, call.pc, <<>>, <<>>)
        ELSE IF \E k \in DOMAIN doc_ids : doc_ids[k] >= Len(coll)
        THEN Outcome(m, index, "raised", <<>>, <<>>)   \* self.collection[doc_id]
        ELSE Outcome(m, index, "returned", <<>>,
                     [k \in DOMAIN doc_ids |-> [score |-> Frac(1, 1), doc |-> doc_ids[k] + 1]])

\* a buckley_lewit_search that builds the index on every call
buckley_lewit_search_rebuilding(m, il, coll, query, stemming, stop_word_filtering) ==
    LET vm == build_inverted_index(
                  [inverted_index |-> m.inverted_index,
                   document_vectors |-> m.document_vectors,
                   doc_lengths |-> m.doc_lengths, num_documents |-> m.num_documents],
                  coll)
        m1 == [kind |-> "vec", inverted_index |-> vm.inverted_index,
               document_vectors |-> vm.document_vectors,
               doc_lengths |-> vm.doc_lengths, num_documents |-> vm.num_documents]
    IN  Outcome(m1, il, "returned", <<>>, <<>>)

\* buckley_lewit_search with a VectorSpaceModel
buckley_lewit_search(m, il, coll, query, stemming, stop_word_filtering) ==
    LET fields == [inverted_index |-> m.inverted_index,
                   document_vectors |-> m.document_vectors,
                   doc_lengths |-> m.doc_lengths, num_documents |-> m.num_documents]
        vm == IF DOMAIN m.document_vectors = {}
              THEN build_inverted_index(fields, coll) ELSE fields
        m1 == [kind |-> "vec", inverted_index |-> vm.inverted_index,
               document_vectors |-> vm.document_vectors,
               doc_lengths |-> vm.doc_lengths, num_documents |-> vm.num_documents]
        query_representation == VectorQueryToRepresentation(vm, query)
        scores == [i \in DOMAIN coll |->
                      VectorMatch(vm.document_vectors[i - 1], query_representation)]
    IN  IF \E i \in DOMAIN coll : (i - 1) \notin DOMAIN vm.document_vectors
        THEN Outcome(m1, il, "raised", <<>>, <<>>)   \* document_vectors[doc_id]
        ELSE Outcome(m1, il, "returned", scores, RankedResults(scores))

\* signature_search with a SignatureBasedBooleanModel
signature_search(m, il, coll, query, stemming, stop_word_filtering) ==
    LET sm == IF m.signatures = <<>>
              THEN SignatureAddAll([documents |-> m.documents, signatures |-> m.signatures],
                                   m.hash, coll, stop_word_filtering, stemming)
              ELSE m
        m1 == [kind |-> "sig", documents |-> sm.documents,
               signatures |-> sm.signatures, hash |-> m.hash]
        call == Search(m1, query)
        slots == Ascending(call.result)
    IN  IF call.pc # "done"
        THEN Outcome(m1, il, call.pc, <<>>, <<>>)
        ELSE Outcome(m1, il, "returned", <<>>,
                     [k \in DOMAIN slots |-> [score |-> Frac(1, 1), doc |-> slots[k] + 1]])

------------------------------------------------------------------------------
(* Spec: the menu loop of InformationRetrievalSystem.main_menu *)

\* the most fables the source file holds
MaxDocs == 2

Tbs == <<"b", "s">>

\* the term lists a fable may have
DocTermLists == {<<Ta, Tbs>>, <<TB>>}

RawFiles == UNION {[1 .. n -> DocTermLists] : n \in 0 .. MaxDocs}

\* the queries typed at the prompt: "b", "a b", "a&b", "b &"
SysQueries ==
    {<<"b">>, <<"a", " ", "b">>, <<"a", "&", "b">>, <<"b", " ", "&">>}

\* CHOICE_EXTRACT on a file: extract, then filter and stem as answered
BuiltCollection(fables, filter, stem) ==
    LET extracted == extract_collection(fables)
        filtered  == IF filter
                     THEN filter_collection(extracted, StopStr(STOPWORD_FILE_PATH))
                     ELSE extracted
    IN  IF stem THEN stem_all_docs(filtered) ELSE filtered

\* BuiltCollection of every source file and pair of answers, and the query
\* CHOICE_SEARCH passes on for every typed query: the values the steps below
\* use, computed once
BuiltCollections ==
    [fables \in RawFiles |->
        [filter \in BOOLEAN |->
            [stem \in BOOLEAN |-> BuiltCollection(fables, filter, stem)]]]

StemmedQueries == [typed \in SysQueries |-> stem_query_terms(Lower(typed))]

NoModel == [kind |-> "none"]

\* the list __init__ reads from data/stopwords.json: ['b']
StopWordLists == {<<Tb>>}

NoSearch ==
    [routine |-> "none", query |-> <<>>, stemming |-> FALSE,
     stop_word_filtering |-> FALSE, outcome |-> "none",
     scores |-> <<>>, results |-> <<>>]

\* InformationRetrievalSystem.__init__: the collection is the one a former
\* run saved to data/my_collection.json, or empty when there is no such file
Init ==
    /\ rawFile \in RawFiles
    /\ self_stop_word_list \in StopWordLists
    /\ collection \in {<<>>} \cup
          {BuiltCollections[rawFile][filter][stem] : filter \in BOOLEAN, stem \in BOOLEAN}
    /\ model = NoModel
    /\ inverted_list = NoModel
    /\ status = "running"
    /\ last = NoSearch
    /\ EvalIdle /\ SigIdle /\ ReprIdle /\ CallIdle

\* CHOICE_EXTRACT: the two questions answered by filter and stem
ChoiceExtract ==
    /\ status = "running"
    /\ \E filter \in BOOLEAN, stem \in BOOLEAN :
          /\ collection' = BuiltCollections[rawFile][filter][stem]
          /\ last' = [NoSearch EXCEPT !.routine = "extract_collection",
                                      !.stop_word_filtering = filter,
                                      !.stemming = stem]
    /\ UNCHANGED <<rawFile, self_stop_word_list, model, inverted_list, status, evalVars, sigVars, reprVars, callVars>>

\* the instance model_choice constructs; MODEL_FUZZY raises NotImplementedError
NewModel(model_choice) ==
    IF model_choice = 1 THEN [kind |-> "lin", documents |-> <<>>]
    ELSE IF model_choice = 2
    THEN [kind |-> "inv", inverted_index |-> InvertedListInit.inverted_index,
          all_docs |-> InvertedListInit.all_docs]
    ELSE IF model_choice = 3
    THEN [kind |-> "sig", documents |-> SignatureInit.documents,
          signatures |-> SignatureInit.signatures, hash |-> EvalHash]
    ELSE [kind |-> "vec", inverted_index |-> VectorInit.inverted_index,
          document_vectors |-> VectorInit.document_vectors,
          doc_lengths |-> VectorInit.doc_lengths,
          num_documents |-> VectorInit.num_documents]

\* CHOICE_SET_MODEL; a choice outside 1..5 prints 'Invalid choice.'
ChoiceSetModel ==
    /\ status = "running"
    /\ \E model_choice \in 1 .. 6 :
          IF model_choice = 4
          THEN status' = "crashed" /\ UNCHANGED model
          ELSE IF model_choice = 6
          THEN UNCHANGED <<status, model>>
          ELSE model' = NewModel(model_choice) /\ UNCHANGED status
    /\ last' = NoSearch
    /\ UNCHANGED <<rawFile, self_stop_word_list, collection, inverted_list, evalVars, sigVars, reprVars, callVars>>

\* the routine CHOICE_SEARCH dispatches to for the current model
Routine(m) ==
    IF m.kind = "inv" THEN "inverted_list_search"
    ELSE IF m.kind = "vec" THEN "buckley_lewit_search"
    ELSE IF m.kind = "sig" THEN "signature_search"
    ELSE "basic_query_search"

\* CHOICE_SEARCH with the search mode and the query typed
ChoiceSearch ==
    /\ status = "running"
    /\ \E search_mode \in 1 .. 4, typed \in SysQueries :
          LET stop_word_filtering == search_mode \in {2, 4}
              stemming == search_mode \in {3, 4}
              query == IF stemming THEN StemmedQueries[typed] ELSE Lower(typed)
              out == IF model.kind = "inv"
                     THEN inverted_list_search(model, inverted_list, collection, query,
                                               stemming, stop_word_filtering)
                     ELSE IF model.kind = "vec"
                     THEN buckley_lewit_search(model, inverted_list, collection, query,
                                               stemming, stop_word_filtering)
                     ELSE IF model.kind = "sig"
                     THEN signature_search(model, inverted_list, collection, query,
                                           stemming, stop_word_filtering)
                     ELSE IF model.kind = "lin"
                     THEN basic_query_search(model, inverted_list, collection, query,
                                             stemming, stop_word_filtering)
                     \* self.model is None: AttributeError
                     ELSE Outcome(model, inverted_list, "raised", <<>>, <<>>)
          IN  /\ model' = out.model
              /\ inverted_list' = out.inverted_list
              /\ status' = IF out.outcome = "returned" THEN "running"
                           ELSE IF out.outcome = "raised" THEN "crashed" ELSE "hung"
              /\ last' = [routine |-> Routine(model), query |-> query,
                          stemming |-> stemming,
                          stop_word_filtering |-> stop_word_filtering,
                          outcome |-> out.outcome,
                          scores |-> out.scores, results |-> out.results]
    /\ UNCHANGED <<rawFile, self_stop_word_list, collection, evalVars, sigVars, reprVars, callVars>>

Next == ChoiceExtract \/ ChoiceSetModel \/ ChoiceSearch

Spec == Init /\ [][Next]_vars

------------------------------------------------------------------------------
(* Claims about the search routines (Spec).  last is the search of the
   latest menu step; the collection, the model and the index are the ones
   that search used and left. *)

\* every case-folded term of a list of a document of the collection, and
\* every key of the index
KnownTerms ==
    UNION {Folded(collection[i].terms) \cup Folded(collection[i].filtered_terms)
              \cup Folded(collection[i].stemmed_terms) : i \in DOMAIN collection}
    \cup DOMAIN inverted_list.inverted_index

\* C5: in the index inverted_list_search used, for every term T and every
\* document of the collection, the document's document_id is in
\* inverted_index[T] exactly when T occurs, case-folded, in the term list the
\* search's flags select.
C5_IndexHoldsSelectedTerms ==
    last.routine = "inverted_list_search" =>
        \A i \in DOMAIN collection : \A T \in KnownTerms :
            collection[i].document_id \in Postings(inverted_list, T)
            <=> T \in Folded(SelectedTerms(collection[i], last.stop_word_filtering,
                                           last.stemming))

\* a query of whitespace-separated terms: no operator character in it
TermsQuery(query) == Range(query) \cap BoolOps = {}

\* C7: with the LinearBooleanModel, the score basic_query_search gives a
\* document for a query of whitespace-separated terms is the number of
\* distinct case-folded query terms that occur in the document's selected
\* term list.
C7_ScoreCountsCommonTerms ==
    (/\ last.routine = "basic_query_search"
     /\ last.outcome = "returned"
     /\ TermsQuery(last.query)) =>
        \A i \in DOMAIN collection :
            last.scores[i] =
                Frac(Cardinality(
                        Folded(SelectedTerms(collection[i], last.stop_word_filtering,
                                             last.stemming))
                        \cap Folded(Split(last.query))), 1)

------------------------------------------------------------------------------
(* Further claims about the query evaluator (SpecEval) *)

\* the slots (documents, from 0) of a signature model whose signatures match
\* the signature of one term
MatchingSlots(ctx, t) ==
    {i - 1 : i \in {j \in DOMAIN ctx.signatures :
                       SignatureMatch(ctx.signatures[j],
                                      SignatureQueryToRepresentation(ctx.hash, t))}}

\* C11: on a signature model, search("-t") for a term t returns exactly the
\* registered documents for which match(signatures of the document,
\* signature of t) is False.
C11_SignatureNot ==
    \A t \in EvalTerms :
        (evCtx.kind = "sig" /\ evQuery = <<"-">> \o t /\ ev.pc = "done") =>
            ev.result = (0 .. Len(evCtx.signatures) - 1) \ MatchingSlots(evCtx, t)

------------------------------------------------------------------------------
(* Claims about the vector model in the system (Spec) *)

\* the positions of the collection a result list returns
Returned == {last.results[k].doc : k \in DOMAIN last.results}

\* the terms of the query a search routine was given
QueryTerms == Range(Split(last.query))

\* C12: after a buckley_lewit_search, a document whose terms share no
\* case-folded term with the query has similarity 0 and is not returned; a
\* document that contains a query term which some other document of the
\* collection lacks has similarity > 0 and is returned.
C12_VectorSimilarity ==
    (last.routine = "buckley_lewit_search" /\ last.outcome = "returned") =>
        \A i \in DOMAIN collection :
            /\ Folded(collection[i].terms) \cap QueryTerms = {} =>
                  last.scores[i].num = 0 /\ i \notin Returned
            /\ (\E t \in QueryTerms \cap Folded(collection[i].terms) :
                   \E j \in DOMAIN collection : t \notin Folded(collection[j].terms)) =>
                  last.scores[i].num > 0 /\ i \in Returned

\* the query "b" on the documents [a bs], [B]: the first has similarity 0,
\* the second is the only result
C12_Witness ==
    /\ last.routine = "buckley_lewit_search" /\ last.outcome = "returned"
    /\ last.query = <<"b">>
    /\ Len(collection) = 2
    /\ collection[1].terms = <<Ta, Tbs>> /\ collection[2].terms = <<TB>>
    /\ last.scores[1].num = 0 /\ last.scores[2].num > 0
    /\ Returned = {2}

------------------------------------------------------------------------------
(* SpecVec: a VectorSpaceModel built from a collection, then queried with the
   term list of one of its documents *)

\* the most documents of the collection
MaxVecDocs == 3

\* the term lists of the documents
VecTermLists == {<<Ta>>, <<Ta, Tb>>, <<TB, Ta, Ta>>, <<Tc>>}

\* the collections: document_id is the position, from 0
VecCollections ==
    UNION {{[i \in 1 .. n |-> TermsOnly(i - 1, lists[i])] :
               lists \in [1 .. n -> VecTermLists]} : n \in 1 .. MaxVecDocs}

VecInit ==
    /\ \E documents \in VecCollections :
          fcall = [documents |-> documents, model |-> VectorInit, built |-> FALSE,
                   doc_id |-> -1, query |-> <<>>, query_representation |-> <<>>,
                   score |-> Frac(0, 1)]
    /\ EvalIdle /\ SigIdle /\ ReprIdle /\ SysIdle

\* model.build_inverted_index(documents)
VecBuild ==
    /\ ~fcall.built
    /\ fcall' = [fcall EXCEPT !.built = TRUE,
                    !.model = build_inverted_index(VectorInit, fcall.documents)]
    /\ UNCHANGED <<evalVars, sigVars, reprVars, sysVars>>

\* query_to_representation(' '.join(document.terms)) for one document of the
\* collection, and match() of the document's vector with it
VecQueryDocument ==
    /\ fcall.built /\ fcall.doc_id = -1
    /\ \E doc_id \in 0 .. Len(fcall.documents) - 1 :
          LET query == Join(fcall.documents[doc_id + 1].terms)
              query_representation == VectorQueryToRepresentation(fcall.model, query)
          IN  fcall' = [fcall EXCEPT
                          !.doc_id = doc_id, !.query = query,
                          !.query_representation = query_representation,
                          !.score = VectorMatch(fcall.model.document_vectors[doc_id],
                                                query_representation)]
    /\ UNCHANGED <<evalVars, sigVars, reprVars, sysVars>>

VecNext == VecBuild \/ VecQueryDocument

SpecVec == VecInit /\ [][VecNext]_vars

\* C13: for every document of an indexed collection, the query made of the
\* document's own term list has a query vector equal to the document's
\* vector, and match() of the two is the cosine similarity 1.
C13_OwnTermsScoreOne ==
    fcall.doc_id >= 0 =>
        /\ fcall.query_representation = fcall.model.document_vectors[fcall.doc_id]
        /\ fcall.score = Frac(1, 1)

------------------------------------------------------------------------------
(* Claims about the menu loop (Spec) *)

\* C14: once a search has built the vector index for a non-empty collection
\* (document_vectors is not empty), a further buckley_lewit_search on the
\* same model, with any query and flags, leaves inverted_index,
\* document_vectors, doc_lengths and num_documents as they are.
C14_LazyBuildIdempotent ==
    (model.kind = "vec" /\ DOMAIN model.document_vectors # {}) =>
        \A typed \in SysQueries, stemming \in BOOLEAN, stop_word_filtering \in BOOLEAN :
            LET after == buckley_lewit_search(model, inverted_list, collection,
                                              Lower(typed), stemming,
                                              stop_word_filtering).model
            IN  /\ after.inverted_index = model.inverted_index
                /\ after.document_vectors = model.document_vectors
                /\ after.doc_lengths = model.doc_lengths
                /\ after.num_documents = model.num_documents

\* a vector search has returned on a model whose index holds two documents
\* and three terms
C14_Witness ==
    /\ model.kind = "vec"
    /\ last.routine = "buckley_lewit_search" /\ last.outcome = "returned"
    /\ DOMAIN model.document_vectors = {0, 1}
    /\ Len(model.inverted_index) = 3
    /\ model.num_documents = 2

------------------------------------------------------------------------------
(* SpecExtract: extract_collection on one source file *)

\* the most pieces after the heading
MaxPieces == 4

\* the pieces a file may hold after the heading: a title with no paragraph,
\* a fable of one paragraph, a fable of two paragraphs
PieceShapes ==
    { << <<TitleWord>> >>,
      << <<TitleWord>>, <<Ta, Tb>> >>,
      << <<TitleWord>>, <<Ta>>, <<Tc>> >> }

ExtractInit ==
    /\ \E n \in 1 .. MaxPieces : \E pieces \in [1 .. n -> PieceShapes] :
          fcall = [pieces |-> <<HeadingPiece>> \o pieces, returned |-> FALSE,
                   catalog |-> <<>>]
    /\ EvalIdle /\ SigIdle /\ ReprIdle /\ SysIdle

\* catalog = extract_collection(source_file_path)
ExtractCall ==
    /\ ~fcall.returned
    /\ fcall' = [fcall EXCEPT !.returned = TRUE,
                              !.catalog = ExtractFrom(fcall.pieces, 1, <<>>)]
    /\ UNCHANGED <<evalVars, sigVars, reprVars, sysVars>>

ExtractNext == ExtractCall

SpecExtract == ExtractInit /\ [][ExtractNext]_vars

\* C15: in the collection extract_collection returns, the document at list
\* index i (from 0) has document_id i, so that collection[doc_id] is the
\* document that carries the id doc_id.
C15_IdIsPosition ==
    fcall.returned =>
        \A i \in DOMAIN fcall.catalog : fcall.catalog[i].document_id = i - 1

------------------------------------------------------------------------------
(* SpecStem: get_measure and stem_term on one word, and stem_term on the
   stem it returned *)

\* the words of the documented examples
StemLiterals ==
    {<<"c", "a", "r", "e", "s", "s", "e", "s">>,
     <<"p", "o", "n", "i", "e", "s">>,
     <<"r", "e", "l", "a", "t", "i", "o", "n", "a", "l">>,
     <<"h", "o", "p", "p", "i", "n", "g">>, <<"a", "g", "r", "e", "e", "d">>,
     <<"a", "g", "r", "e", "e">>, <<"f", "i", "l", "i", "n", "g">>,
     <<"t", "e", "s", "t", "e", "d">>, <<"t", "r">>, <<"o", "a", "t">>,
     <<"t", "r", "o", "u", "b", "l">>}

\* further words: each of these stems with each of these endings
StemStems ==
    {<<"h", "o", "p">>, <<"f", "i", "l">>, <<"t", "e", "s", "t">>,
     <<"a", "g", "r", "e">>, <<"t", "r", "o", "u", "b", "l">>,
     <<"r", "e", "l", "a", "t">>, <<"p", "o", "n">>, <<"o", "a", "t">>}

StemEndings ==
    {<<>>, <<"e">>, <<"s">>, <<"e", "d">>, <<"i", "n", "g">>, <<"l", "y">>,
     <<"a", "t", "i", "o", "n">>, <<"n", "e", "s", "s">>}

StemWords == StemLiterals \cup {s \o e : s \in StemStems, e \in StemEndings}

StemInit ==
    /\ \E term \in StemWords :
          fcall = [term |-> term, measured |-> FALSE, measure |-> 0,
                   stemmed |-> FALSE, stem |-> <<>>,
                   restemmed |-> FALSE, stem2 |-> <<>>]
    /\ EvalIdle /\ SigIdle /\ ReprIdle /\ SysIdle

\* get_measure(term)
StemMeasure ==
    /\ ~fcall.measured
    /\ fcall' = [fcall EXCEPT !.measured = TRUE, !.measure = get_measure(fcall.term)]
    /\ UNCHANGED <<evalVars, sigVars, reprVars, sysVars>>

\* stem_term(term)
StemTerm ==
    /\ ~fcall.stemmed
    /\ fcall' = [fcall EXCEPT !.stemmed = TRUE, !.stem = stem_term(fcall.term)]
    /\ UNCHANGED <<evalVars, sigVars, reprVars, sysVars>>

\* stem_term of the stem the first call returned
StemAgain ==
    /\ fcall.stemmed /\ ~fcall.restemmed
    /\ fcall' = [fcall EXCEPT !.restemmed = TRUE, !.stem2 = stem_term(fcall.stem)]
    /\ UNCHANGED <<evalVars, sigVars, reprVars, sysVars>>

StemNext == StemMeasure \/ StemTerm \/ StemAgain

SpecStem == StemInit /\ [][StemNext]_vars

\* the stem stem_term returned for a word, once it has
StemOf(word, stem) == (fcall.term = word /\ fcall.stemmed) => fcall.stem = stem

\* C16: stem_term("caresses") = "caress", stem_term("ponies") = "poni",
\* stem_term("relational") = "relate" and stem_term("hopping") = "hop".
C16_StemLiterals ==
    /\ StemOf(<<"c", "a", "r", "e", "s", "s", "e", "s">>, <<"c", "a", "r", "e", "s", "s">>)
    /\ StemOf(<<"p", "o", "n", "i", "e", "s">>, <<"p", "o", "n", "i">>)
    /\ StemOf(<<"r", "e", "l", "a", "t", "i", "o", "n", "a", "l">>, <<"r", "e", "l", "a", "t", "e">>)
    /\ StemOf(<<"h", "o", "p", "p", "i", "n", "g">>, <<"h", "o", "p">>)

\* C17: stem_term("agreed") = "agree", and "agree" is a fixed point of
\* stem_term, so that stemming "agreed" twice gives what stemming it once gives.
C17_AgreedFixedPoint ==
    /\ StemOf(<<"a", "g", "r", "e", "e", "d">>, <<"a", "g", "r", "e", "e">>)
    /\ StemOf(<<"a", "g", "r", "e", "e">>, <<"a", "g", "r", "e", "e">>)
    /\ (fcall.term = <<"a", "g", "r", "e", "e", "d">> /\ fcall.restemmed)
          => fcall.stem2 = fcall.stem

\* the vowels of the measure [C](VC){m}[V]: a, e, i, o, u, and y after a consonant
RECURSIVE PorterVowel(_, _)
PorterVowel(term, k) ==
    \/ term[k] \in Aeiou
    \/ term[k] = "y" /\ k > 1 /\ ~PorterVowel(term, k - 1)

\* the number of places where a vowel run is followed by a consonant run
PorterMeasure(term) ==
    Cardinality({k \in 1 .. Len(term) - 1 :
                    PorterVowel(term, k) /\ ~PorterVowel(term, k + 1)})

\* C18: for every lower-case stem, get_measure(stem) is the measure m of the
\* form [C](VC){m}[V], the number of vowel-run to consonant-run transitions
\* of the stem (0 for "tr", 1 for "oat").
C18_MeasureCountsTransitions ==
    fcall.measured => fcall.measure = PorterMeasure(fcall.term)

------------------------------------------------------------------------------
(* SpecFilter: filter_collection on a collection of documents that have
   their terms, with a list of stop words or, as main_menu passes it, the
   path of the stop word file *)

MaxFilterDocs == 1
MaxFilterTerms == 2

\* tokens of raw_text.split(): words, a word with a full stop, a word with
\* 's, a dash
FilterTerms ==
    {Ta, TB, <<"b", ".">>, <<"a", "'", "s">>, <<"-">>}

FilterTermLists ==
    UNION {[1 .. n -> FilterTerms] : n \in 0 .. MaxFilterTerms}

FilterCollections ==
    {[i \in DOMAIN tl |-> Doc(i, tl[i], <<>>, <<>>)] :
        tl \in UNION {[1 .. n -> FilterTermLists] : n \in 0 .. MaxFilterDocs}}

FilterStopLists ==
    {StopList(<<>>), StopList(<<Tb>>), StopStr(STOPWORD_FILE_PATH)}

FilterInit ==
    /\ \E coll \in FilterCollections, stop_word_list \in FilterStopLists :
          fcall = [collection |-> coll, stop_word_list |-> stop_word_list,
                   filtered |-> FALSE]
    /\ EvalIdle /\ SigIdle /\ ReprIdle /\ SysIdle

\* filter_collection(collection, stop_word_list): the documents are changed
\* in place
FilterCall ==
    /\ ~fcall.filtered
    /\ fcall' = [fcall EXCEPT
                    !.collection = filter_collection(fcall.collection,
                                                     fcall.stop_word_list),
                    !.filtered = TRUE]
    /\ UNCHANGED <<evalVars, sigVars, reprVars, sysVars>>

FilterNext == FilterCall

SpecFilter == FilterInit /\ [][FilterNext]_vars

\* a is b with entries left out, the others in their order
RECURSIVE IsSubsequence(_, _)
IsSubsequence(a, b) ==
    IF a = <<>> THEN TRUE
    ELSE IF b = <<>> THEN FALSE
    ELSE IF Head(a) = Head(b) THEN IsSubsequence(Tail(a), Tail(b))
    ELSE IsSubsequence(a, Tail(b))

Cleaned(D) == [k \in DOMAIN D.terms |-> remove_symbols(D.terms[k])]

------------------------------------------------------------------------------
(* Claims about the index of inverted_list_search (Spec) *)

\* C20: whenever inverted_list_search has run, the index it evaluated the
\* query against is the one build_inverted_list produces from the current
\* collection, and every returned id is a position of the collection, after
\* any sequence of Set-model, Search and Build-collection steps.
C20_IndexIsCurrent ==
    last.routine = "inverted_list_search" =>
        LET built == build_inverted_list(InvertedListInit, collection)
        IN  /\ inverted_list.kind = "inv"
            /\ inverted_list.inverted_index = built.inverted_index
            /\ inverted_list.all_docs = built.all_docs
            /\ \A k \in DOMAIN last.results :
                  last.results[k].doc \in DOMAIN collection

------------------------------------------------------------------------------
(* Claims about the signatures of signature_search (Spec) *)

\* C21: every signature_search call matches the query against document
\* signatures built from the term variant its own flags select, whatever the
\* flags of earlier calls on the same model instance were, and the model
\* holds exactly one signature list per document of the collection.
C21_SignaturesFollowFlags ==
    last.routine = "signature_search" =>
        LET fresh == SignatureAddAll(SignatureInit, model.hash, collection,
                                     last.stop_word_filtering, last.stemming)
        IN  /\ model.signatures = fresh.signatures
            /\ Len(model.signatures) = Len(collection)

------------------------------------------------------------------------------
(* Claims about negation and operator chains in InvertedListBooleanModel.search
   (SpecEval) *)

\* C22: a '-' negates exactly the operand of the term that follows it, also
\* when a binary operator comes later: "-a & b" returns (all_docs minus
\* inverted_index[a]) \cap inverted_index[b] and "-a | b" returns (all_docs
\* minus inverted_index[a]) \cup inverted_index[b].
C22_NegationBindsNextTerm ==
    (evCtx.kind = "inv" /\ ev.pc = "done") =>
        \A x \in EvalTerms, y \in EvalTerms :
            /\ evQuery = <<"-">> \o x \o <<"&">> \o y =>
                  ev.result = (evCtx.all_docs \ Postings(evCtx, x)) \cap Postings(evCtx, y)
            /\ evQuery = <<"-">> \o x \o <<"|">> \o y =>
                  ev.result = (evCtx.all_docs \ Postings(evCtx, x)) \cup Postings(evCtx, y)

\* the value of a chain evaluated strictly left to right with '&' and '|' of
\* equal precedence; acc is the value of the part already read
RECURSIVE LeftToRight(_, _, _, _)
LeftToRight(ctx, q, k, acc) ==
    IF k > Len(q) THEN acc
    ELSE LET next == Postings(ctx, <<q[k + 1]>>)
         IN  LeftToRight(ctx, q, k + 2,
                         IF q[k] = "&" THEN acc \cap next ELSE acc \cup next)

\* C23: '&' and '|' have equal precedence and chains of them are evaluated
\* strictly left to right: "a | b & c" returns (index[a] \cup index[b]) \cap
\* index[c] and "a & b | c" returns (index[a] \cap index[b]) \cup index[c];
\* at the end of a query of n terms joined by n - 1 binary operators the
\* operand stack holds exactly one set, and the call neither raises nor hangs.
C23_ChainsLeftToRight ==
    (evCtx.kind = "inv" /\ evQuery \in ChainQueries) =>
        /\ ev.pc # "raised" /\ ~Hung(ev, evCtx)
        /\ (ev.pc = "drain" /\ ev.operator_stack = <<>>) => Len(ev.result_stack) = 1
        /\ ev.pc = "done" =>
              ev.result = LeftToRight(evCtx, evQuery, 2, Postings(evCtx, <<evQuery[1]>>))

\* search("a|b&c") has returned on the collection where (a | b) & c and
\* a | (b & c) differ
C23_Witness ==
    /\ evCtx.kind = "inv"
    /\ evQuery = <<"a", "|", "b", "&", "c">>
    /\ ev.pc = "done"
    /\ ev.result = {1, 2}
    /\ ev.result # Postings(evCtx, Ta) \cup (Postings(evCtx, Tb) \cap Postings(evCtx, Tc))

\* the stem ends consonant, vowel, consonant and the last one is not w, x or y
EndsCvc(stem) ==
    LET n == Len(stem)
    IN  /\ n >= 3
        /\ ~PorterVowel(stem, n - 2)
        /\ PorterVowel(stem, n - 1)
        /\ ~PorterVowel(stem, n)
        /\ stem[n] \notin {"w", "x", "y"}

\* what is left of a word that step 1b takes -ed or -ing from, when neither
\* the at/bl/iz rule nor the doubled-consonant rule applies to it: a set of
\* one stem, or the empty set when step 1b does not come to the cvc rule
CvcRuleStems(word) ==
    {stem \in {DropLast(word, 2), DropLast(word, 3)} :
        /\ ~EndsWith(word, <<"e", "e", "d">>)
        /\ \/ stem = DropLast(word, 2) /\ EndsWith(word, <<"e", "d">>)
           \/ stem = DropLast(word, 3) /\ EndsWith(word, <<"i", "n", "g">>)
        /\ condition_v(stem)
        /\ ~EndsWith(stem, <<"a", "t">>) /\ ~EndsWith(stem, <<"b", "l">>)
        /\ ~EndsWith(stem, <<"i", "z">>)
        /\ ~(condition_d(stem) /\ stem[Len(stem)] \notin {"l", "s", "z"})}

\* C24: in step 1b, after -ed or -ing has been removed and neither the
\* at/bl/iz rule nor the doubled-consonant rule applied, an 'e' is appended
\* if and only if the stem ends consonant-vowel-consonant with the last
\* consonant not w, x or y; "filing" stems to "file" and "tested" to "test".
C24_CvcRule ==
    /\ fcall.stemmed => \A stem \in CvcRuleStems(Step1a(fcall.term)) :
          /\ Step1b(Step1a(fcall.term)) \in {stem, Append(stem, "e")}
          /\ Step1b(Step1a(fcall.term)) = Append(stem, "e") <=> EndsCvc(stem)
    /\ StemOf(<<"f", "i", "l", "i", "n", "g">>, <<"f", "i", "l", "e">>)
    /\ StemOf(<<"t", "e", "s", "t", "e", "d">>, <<"t", "e", "s", "t">>)

------------------------------------------------------------------------------
(* SpecStemQuery: stem_query_terms on one query, as CHOICE_SEARCH calls it
   when stemming is chosen *)

\* the words of the queries: cats, dogs, cat, ponies, hopping, fox
StemQueryWords ==
    {<<"c", "a", "t", "s">>,
     <<"d", "o", "g", "s">>,
     <<"c", "a", "t">>,
     <<"p", "o", "n", "i", "e", "s">>,
     <<"h", "o", "p", "p", "i", "n", "g">>,
     <<"f", "o", "x">>}

\* what stands between two terms: an operator with or without spaces, or a space
StemQuerySeparators ==
    {<<"&">>, <<" ", "&", " ">>, <<"|">>, <<" ", "|", " ">>, <<" ">>}

\* "x&y", "x & y", "x|y", "x | y", "x y", "-x", "(x)"
StemQueries ==
    {x \o sep \o y : x \in StemQueryWords, y \in StemQueryWords,
                     sep \in StemQuerySeparators}
    \cup {<<"-">> \o x : x \in StemQueryWords}
    \cup {<<"(">> \o x \o <<")">> : x \in StemQueryWords}

StemQueryInit ==
    /\ \E query \in StemQueries :
          fcall = [query |-> query, returned |-> FALSE, stemmed_query |-> <<>>]
    /\ EvalIdle /\ SigIdle /\ ReprIdle /\ SysIdle

\* stem_query_terms(query)
StemQueryCall ==
    /\ ~fcall.returned
    /\ fcall' = [fcall EXCEPT !.returned = TRUE,
                              !.stemmed_query = stem_query_terms(fcall.query)]
    /\ UNCHANGED <<evalVars, sigVars, reprVars, sysVars>>

StemQueryNext == StemQueryCall

SpecStemQuery == StemQueryInit /\ [][StemQueryNext]_vars

\* C25: stem_query_terms replaces every term of a Boolean query by
\* stem_term(term) and leaves the operators & | - ( ) as they are, whether
\* or not spaces separate the terms from the operators: "cats&dogs" becomes
\* "cat&dog", with the terms "cats & dogs" gives.
C25_StemsEveryTerm ==
    fcall.returned =>
        /\ \A x \in StemQueryWords, y \in StemQueryWords,
              sep \in StemQuerySeparators :
                fcall.query = x \o sep \o y =>
                    fcall.stemmed_query = stem_term(x) \o sep \o stem_term(y)
        /\ \A x \in StemQueryWords :
              /\ fcall.query = <<"-">> \o x =>
                    fcall.stemmed_query = <<"-">> \o stem_term(x)
              /\ fcall.query = <<"(">> \o x \o <<")">> =>
                    fcall.stemmed_query = <<"(">> \o stem_term(x) \o <<")">>

------------------------------------------------------------------------------
(* Claims about the stop word filtering of CHOICE_EXTRACT (Spec) *)

\* C26: after the Build-collection step with stop word filtering chosen, the
\* filtered_terms of each document are, in their order, exactly the
\* symbol-stripped terms of the document whose lower-case form is not an
\* element of self.stop_word_list: a term is dropped if and only if it is a
\* stop word of that list.
C26_FilteredByStopWordList ==
    (last.routine = "extract_collection" /\ last.stop_word_filtering) =>
        \A i \in DOMAIN collection :
            collection[i].filtered_terms =
                SelectSeq(Cleaned(collection[i]),
                          LAMBDA t : Lower(t) \notin Range(self_stop_word_list))

==============================================================================
